---- MODULE Spec2Model ----
(***************************************************************************)
(* Assessment pipeline of the Azure Security Platform (run_assessment.py,  *)
(* backend/assessment/engine.py, grading.py, comparison.py and             *)
(* backend/compliance/mapper.py) as a state machine.                       *)
(*                                                                         *)
(* Numbers.  Python floats are modelled as scaled integers:                *)
(*   - percentages read from the raw snapshot are whole points;            *)
(*   - a category score is held in hundredths of a point (x100);           *)
(*   - the unrounded overall score is held in 1/10000 of a point;          *)
(*   - a value rounded with round(x, 1) is held in tenths of a point.      *)
(***************************************************************************)
EXTENDS Integers, Sequences, FiniteSets, TLC

\* ------------------------------------------------------------------------
\* Bounds of the model
\* ------------------------------------------------------------------------

\* number of pipeline runs (processes) in one behaviour; also the supply of
\* fresh assessment ids
MaxRuns == 2

\* calls of map_to_framework made in one process
MaxCalls == 2

\* ------------------------------------------------------------------------
\* Dictionaries
\* ------------------------------------------------------------------------

\* the empty dict {}
EmptyDict == << >>

\* dict.get(key, default)
Get(d, key, default) == IF key \in DOMAIN d THEN d[key] ELSE default

\* d[key] = value on a dict
Put(d, key, value) == [k \in (DOMAIN d) \cup {key} |-> IF k = key THEN value ELSE d[k]]

\* ------------------------------------------------------------------------
\* Domains and collectors
\* ------------------------------------------------------------------------

\* the order in which collect_all runs the collectors (and dict order of raw_data)
DomainOrder == <<"secure_score", "identity", "devices", "threats", "backup">>

Domains == {DomainOrder[i] : i \in 1..Len(DomainOrder)}

\* str(e) of an upstream failure
ErrorMessage == "upstream call failed"

\* {"error": str(e)}
ErrorSentinel == [error |-> ErrorMessage]

\* what _collect_backup returns when the backup collector raises
BackupNotConfiguredStub ==
    [health |-> [status |-> "not_configured"],
     recovery_readiness |-> [status |-> "not_configured"],
     recent_jobs |-> << >>]

\* What each _collect_<domain> assembles from its collector when every upstream
\* call succeeds (one representative tenant; only the fields the analysis reads).
CollectorData ==
    [secure_score |->
        [score |-> [current_score |-> 70], controls |-> << >>, improvement_actions |-> << >>],
     identity |->
        [mfa_coverage |-> [admin_coverage_percent |-> 60, user_coverage_percent |-> 82,
                           total_admins |-> 10, admins_with_mfa |-> 6],
         privileged_accounts |-> [global_admin_count |-> 7],
         risky_users |-> [high_risk_count |-> 1],
         conditional_access_policies |->
            <<[state |-> "enabled"], [state |-> "enabled"], [state |-> "disabled"]>>],
     devices |-> [compliance |-> [compliance_percent |-> 75, non_compliant_count |-> 5]],
     threats |-> [summary |-> [critical_count |-> 1]],
     backup |->
        [health |-> [status |-> "healthy", protected_percent |-> 80],
         recovery_readiness |-> [rto_status |-> "healthy", rpo_status |-> "warning"],
         recent_jobs |-> << >>]]

\* ------------------------------------------------------------------------
\* Files
\* ------------------------------------------------------------------------

\* --output-dir values an operator passes
ExplicitDirs == {"custom"}

\* ./assessments/<customer_slug>-<date_str>: every run of a behaviour is for the
\* same customer on the same calendar day
DefaultDir == "assessments/acme-corp-today"

Dirs == ExplicitDirs \cup {DefaultDir}

\* args.output_dir / args.compare_with when the flag is not given
None == "None"

\* --frameworks default
DefaultFrameworks == <<"cis", "nist", "soc2", "iso27001">>

RawFile(d) == <<"raw_data", d>>
FindingsFile == <<"analysis", "findings.json">>
ScoresFile == <<"analysis", "scores.json">>
ComplianceFile(fw) == <<"analysis/compliance", fw>>
ComparisonFile == <<"analysis", "comparison.json">>
ManifestFile == <<"manifest.json", "">>

RawFiles == {RawFile(d) : d \in Domains}
ComplianceFiles == {ComplianceFile(DefaultFrameworks[i]) : i \in 1..Len(DefaultFrameworks)}
AnalysisFiles == {FindingsFile, ScoresFile} \cup ComplianceFiles

\* the files of one assessment's output location (reports/ and evidence/ belong
\* to the renderer and are not tracked)
FileNames == RawFiles \cup AnalysisFiles \cup {ComparisonFile, ManifestFile}

\* a path that does not exist
Absent == [st |-> "absent", doc |-> EmptyDict]


\* ------------------------------------------------------------------------
\* Finding Generator (engine.py)
\* ------------------------------------------------------------------------

\* a finding whose title carries the assessment id
FindingTitledById(rule, aid, title, severity, category, controls) ==
    [id |-> <<rule[1], rule[2], aid>>,
     title |-> <<title, aid>>,
     severity |-> severity,
     category |-> category,
     framework_controls |-> controls]

\* one entry of the findings list; the id "MFA-001-<assessment_id[:8]>" is held
\* as its "-"-separated tokens
Finding(rule, aid, title, severity, category, controls) ==
    [id |-> <<rule[1], rule[2], aid>>,
     title |-> title,
     severity |-> severity,
     category |-> category,
     framework_controls |-> controls]

\* severity_order in _generate_findings
SeverityOrder == <<"critical", "high", "medium", "low", "informational">>

RECURSIVE SortBySeverityFrom(_, _)
SortBySeverityFrom(findings, rank) ==
    IF rank > Len(SeverityOrder) THEN << >>
    ELSE SelectSeq(findings, LAMBDA f : f.severity = SeverityOrder[rank])
         \o SortBySeverityFrom(findings, rank + 1)

\* findings.sort(key=severity rank): a stable sort
SortBySeverity(findings) == SortBySeverityFrom(findings, 1)

Optional(cond, finding) == IF cond THEN <<finding>> ELSE << >>

\* an administrator rule that tolerates five uncovered points
AdminMfaFindingsLenient(mfa, aid) ==
    Optional(Get(mfa, "admin_coverage_percent", 100) < 95,
        Finding(<<"MFA", "001">>, aid, "Administrators Without MFA", "critical", "identity",
                <<<<"CIS", "1.1.2">>, <<"NIST", "IA-2">>, <<"SOC2", "CC6.1">>>>))

\* the administrator MFA rule of _generate_findings
AdminMfaFindings(mfa, aid) ==
    Optional(Get(mfa, "admin_coverage_percent", 100) < 100,
        Finding(<<"MFA", "001">>, aid, "Administrators Without MFA", "critical", "identity",
                <<<<"CIS", "1.1.2">>, <<"NIST", "IA-2">>, <<"SOC2", "CC6.1">>>>))

\* a user rule that is critical up to and including 80
UserMfaFindingsInclusive(mfa, aid) ==
    LET user_cov == Get(mfa, "user_coverage_percent", 100)
    IN Optional(user_cov < 95,
        Finding(<<"MFA", "002">>, aid, "Users Without MFA",
                IF user_cov <= 80 THEN "critical" ELSE "high", "identity",
                <<<<"CIS", "1.1.1">>, <<"NIST", "IA-2">>, <<"SOC2", "CC6.1">>>>))

\* the user MFA rule of _generate_findings
UserMfaFindings(mfa, aid) ==
    LET user_cov == Get(mfa, "user_coverage_percent", 100)
    IN Optional(user_cov < 95,
        Finding(<<"MFA", "002">>, aid, "Users Without MFA",
                IF user_cov < 80 THEN "critical" ELSE "high", "identity",
                <<<<"CIS", "1.1.1">>, <<"NIST", "IA-2">>, <<"SOC2", "CC6.1">>>>))

\* a backup rule whose coverage test is a second `if`
BackupFindingsIndependent(health, aid) ==
    Optional(Get(health, "status", None) = "not_configured",
        Finding(<<"BKP", "001">>, aid, "Azure Backup Not Configured", "critical",
                "backup", <<<<"NIST", "CP-9">>, <<"SOC2", "A1.2">>>>))
    \o Optional(Get(health, "protected_percent", 100) < 90,
        Finding(<<"BKP", "002">>, aid, "Incomplete Backup Coverage", "high",
                "backup", <<<<"NIST", "CP-9">>, <<"SOC2", "A1.2">>>>))

\* the backup rule of _generate_findings: an if / elif
BackupFindings(health, aid) ==
    IF Get(health, "status", None) = "not_configured"
    THEN <<Finding(<<"BKP", "001">>, aid, "Azure Backup Not Configured", "critical",
                   "backup", <<<<"NIST", "CP-9">>, <<"SOC2", "A1.2">>>>)>>
    ELSE Optional(Get(health, "protected_percent", 100) < 90,
            Finding(<<"BKP", "002">>, aid, "Incomplete Backup Coverage", "high",
                    "backup", <<<<"NIST", "CP-9">>, <<"SOC2", "A1.2">>>>))

GenerateFindings(raw, aid) ==
    LET identity_data == Get(raw, "identity", EmptyDict)
        mfa == Get(identity_data, "mfa_coverage", EmptyDict)
        priv == Get(identity_data, "privileged_accounts", EmptyDict)
        risky == Get(identity_data, "risky_users", EmptyDict)
        device_data == Get(raw, "devices", EmptyDict)
        compliance == Get(device_data, "compliance", EmptyDict)
        dev_pct == Get(compliance, "compliance_percent", 100)
        backup_data == Get(raw, "backup", EmptyDict)
        health == Get(backup_data, "health", EmptyDict)
        threat_data == Get(raw, "threats", EmptyDict)
        summary == Get(threat_data, "summary", EmptyDict)
    IN SortBySeverity(
        AdminMfaFindings(mfa, aid)
        \o UserMfaFindings(mfa, aid)
        \o Optional(Get(priv, "global_admin_count", 0) > 5,
            Finding(<<"PRIV", "001">>, aid, "Excessive Global Administrators", "high", "identity",
                    <<<<"CIS", "1.1.3">>, <<"NIST", "AC-6">>, <<"SOC2", "CC6.3">>>>))
        \o Optional(Get(risky, "high_risk_count", 0) > 0,
            Finding(<<"RISK", "001">>, aid, "High-Risk Users Detected", "critical", "identity",
                    <<<<"NIST", "IA-5">>, <<"SOC2", "CC6.1">>>>))
        \o Optional(dev_pct < 90,
            Finding(<<"DEV", "001">>, aid, "Non-Compliant Devices",
                    IF dev_pct < 70 THEN "critical" ELSE "high", "devices",
                    <<<<"CIS", "3.1">>, <<"NIST", "CM-2">>, <<"SOC2", "CC6.6">>>>))
        \o BackupFindings(health, aid)
        \o Optional(Get(summary, "critical_count", 0) > 0,
            Finding(<<"THR", "001">>, aid, "Critical Security Alerts", "critical", "threats",
                    <<<<"NIST", "IR-4">>, <<"SOC2", "CC7.3">>>>)))

\* ------------------------------------------------------------------------
\* Scoring Engine (grading.py)
\* ------------------------------------------------------------------------

Min(a, b) == IF a < b THEN a ELSE b
Max(a, b) == IF a > b THEN a ELSE b

\* round(num/den, 0) as Python rounds: to nearest, ties to even (den > 0)
RoundHalfEven(num, den) ==
    LET q == num \div den
        r == num % den
    IN IF 2 * r < den THEN q
       ELSE IF 2 * r > den THEN q + 1
       ELSE IF q % 2 = 0 THEN q ELSE q + 1

\* a banding whose A band starts above 90
calculate_grade_exclusive(score) ==
    IF score > 900000 THEN "A"
    ELSE IF score >= 750000 THEN "B"
    ELSE IF score >= 600000 THEN "C"
    ELSE IF score >= 400000 THEN "D"
    ELSE "F"

\* calculate_grade on a score in 1/10000 of a point
calculate_grade(score) ==
    IF score >= 900000 THEN "A"
    ELSE IF score >= 750000 THEN "B"
    ELSE IF score >= 600000 THEN "C"
    ELSE IF score >= 400000 THEN "D"
    ELSE "F"

\* category weights of calculate_overall_score, in hundredths
Weights == [identity |-> 25, data_protection |-> 15, backup |-> 15, devices |-> 10, network |-> 5]

\* an overall score that returns the weighted sum as it is
calculate_overall_score_unclipped(secure_score, category_scores) ==
    secure_score * 3000
    + Get(category_scores, "identity", 5000) * Weights.identity
    + Get(category_scores, "data_protection", 5000) * Weights.data_protection
    + Get(category_scores, "backup", 5000) * Weights.backup
    + Get(category_scores, "devices", 5000) * Weights.devices
    + Get(category_scores, "network", 5000) * Weights.network

\* an overall score that counts a missing category as 0
calculate_overall_score_missing_zero(secure_score, category_scores) ==
    LET weighted ==
            secure_score * 3000
            + Get(category_scores, "identity", 0) * Weights.identity
            + Get(category_scores, "data_protection", 0) * Weights.data_protection
            + Get(category_scores, "backup", 0) * Weights.backup
            + Get(category_scores, "devices", 0) * Weights.devices
            + Get(category_scores, "network", 0) * Weights.network
    IN Min(1000000, Max(0, weighted))

\* calculate_overall_score: secure_score in points, categories in hundredths,
\* result in 1/10000 of a point
calculate_overall_score(secure_score, category_scores) ==
    LET weighted ==
            secure_score * 3000
            + Get(category_scores, "identity", 5000) * Weights.identity
            + Get(category_scores, "data_protection", 5000) * Weights.data_protection
            + Get(category_scores, "backup", 5000) * Weights.backup
            + Get(category_scores, "devices", 5000) * Weights.devices
            + Get(category_scores, "network", 5000) * Weights.network
    IN Min(1000000, Max(0, weighted))

\* _calculate_identity_score, in hundredths
CalculateIdentityScore(identity_data) ==
    LET mfa == Get(identity_data, "mfa_coverage", EmptyDict)
        admin_mfa == Get(mfa, "admin_coverage_percent", 0)
        user_mfa == Get(mfa, "user_coverage_percent", 0)
        mfa_score == admin_mfa * 24 + user_mfa * 16
        priv == Get(identity_data, "privileged_accounts", EmptyDict)
        global_admins == Get(priv, "global_admin_count", 0)
        priv_score == IF global_admins <= 4 THEN 30
                      ELSE IF global_admins <= 6 THEN 20
                      ELSE IF global_admins <= 10 THEN 10 ELSE 0
        risky == Get(identity_data, "risky_users", EmptyDict)
        high_risk == Get(risky, "high_risk_count", 0)
        risk_score == IF high_risk = 0 THEN 20 ELSE IF high_risk <= 2 THEN 10 ELSE 0
        ca_policies == Get(identity_data, "conditional_access_policies", << >>)
        enabled_policies == Len(SelectSeq(ca_policies, LAMBDA p : Get(p, "state", None) = "enabled"))
        ca_score == IF enabled_policies >= 5 THEN 10
                    ELSE IF enabled_policies >= 3 THEN 7
                    ELSE IF enabled_policies >= 1 THEN 4 ELSE 0
    IN Min(10000, Max(0, mfa_score + 100 * (priv_score + risk_score + ca_score)))

\* keywords of _calculate_data_protection_score and _calculate_network_score
DataKeywords == {"encrypt", "dlp", "data", "information", "classification"}
NetworkKeywords == {"network", "firewall", "nsg", "vpn", "gateway"}

\* a secure-score control's name is held as the set of keywords its lower-cased
\* text contains
RECURSIVE SumField(_, _)
SumField(controls, field) ==
    IF controls = << >> THEN 0
    ELSE Get(Head(controls), field, 0) + SumField(Tail(controls), field)

\* the shared body of the two control-fraction scores, in hundredths
\* (the quotient is truncated to a hundredth of a point)
ControlFractionScore(secure_score_data, keywords, default) ==
    LET controls == Get(secure_score_data, "controls", << >>)
        matching == SelectSeq(controls, LAMBDA c : Get(c, "name", {}) \cap keywords # {})
        total_score == SumField(matching, "score")
        total_max == SumField(matching, "max_score")
    IN IF matching = << >> THEN default
       ELSE IF total_max = 0 THEN default
       ELSE (total_score * 10000) \div total_max

CalculateDataProtectionScore(secure_score_data) ==
    ControlFractionScore(secure_score_data, DataKeywords, 6000)

CalculateNetworkScore(secure_score_data) ==
    ControlFractionScore(secure_score_data, NetworkKeywords, 7000)

StatusPoints(status) ==
    IF status = "healthy" THEN 25
    ELSE IF status = "warning" THEN 15
    ELSE IF status = "at_risk" THEN 5 ELSE 0

\* _calculate_backup_score, in hundredths
CalculateBackupScore(backup_data) ==
    LET health == Get(backup_data, "health", EmptyDict)
        recovery == Get(backup_data, "recovery_readiness", EmptyDict)
        coverage == Get(health, "protected_percent", 0)
    IN IF Get(health, "status", None) = "not_configured" THEN 0
       ELSE Min(10000, Max(0, coverage * 50
                              + 100 * StatusPoints(Get(recovery, "rto_status", "unknown"))
                              + 100 * StatusPoints(Get(recovery, "rpo_status", "unknown"))))

\* _calculate_device_score, in hundredths
CalculateDeviceScore(device_data) ==
    100 * Get(Get(device_data, "compliance", EmptyDict), "compliance_percent", 50)

calculate_category_scores(raw) ==
    [identity |-> CalculateIdentityScore(Get(raw, "identity", EmptyDict)),
     data_protection |-> CalculateDataProtectionScore(Get(raw, "secure_score", EmptyDict)),
     backup |-> CalculateBackupScore(Get(raw, "backup", EmptyDict)),
     devices |-> CalculateDeviceScore(Get(raw, "devices", EmptyDict)),
     network |-> CalculateNetworkScore(Get(raw, "secure_score", EmptyDict))]

\* a score calculation that reads raw_data["secure_score"]["score"] without
\* defaults: on a missing key nothing is computed
CalculateScoresStrict(raw) ==
    IF "secure_score" \notin DOMAIN raw \/ "score" \notin DOMAIN raw["secure_score"]
    THEN EmptyDict
    ELSE CHOOSE result \in
           {[overall_grade |-> calculate_grade(overall_score),
             overall_score |-> RoundHalfEven(overall_score, 1000),
             secure_score |-> 10 * raw["secure_score"]["score"]["current_score"],
             categories |-> category_scores] :
               overall_score \in
                  {calculate_overall_score(raw["secure_score"]["score"]["current_score"], c) :
                      c \in {calculate_category_scores(raw)}},
               category_scores \in {calculate_category_scores(raw)}} : TRUE

\* AssessmentEngine._calculate_scores: overall_score and secure_score are stored
\* rounded to one decimal (tenths)
CalculateScores(raw) ==
    LET secure_score_data == Get(Get(raw, "secure_score", EmptyDict), "score", EmptyDict)
        secure_score == Get(secure_score_data, "current_score", 50)
       \* each local is computed once and read by the code after its assignment
    IN CHOOSE result \in
         {[overall_grade |-> calculate_grade(overall_score),
           overall_score |-> RoundHalfEven(overall_score, 1000),
           secure_score |-> 10 * secure_score,
           categories |-> category_scores] :
             overall_score \in
                {calculate_overall_score(secure_score, c) : c \in {calculate_category_scores(raw)}},
             category_scores \in {calculate_category_scores(raw)}} : TRUE

\* ------------------------------------------------------------------------
\* Compliance Mapper (mapper.py)
\* ------------------------------------------------------------------------

\* ComplianceMapper.FINDING_TO_CONTROL_MAP as the class is loaded
FINDING_TO_CONTROL_MAP ==
    (<<"MFA", "001">> :> [cis |-> <<"1.1.2">>, nist |-> <<"IA-2", "IA-2(1)", "IA-2(2)">>,
                          soc2 |-> <<"CC6.1">>, iso27001 |-> <<"A.9.4.2">>])
    @@ (<<"MFA", "002">> :> [cis |-> <<"1.1.1">>, nist |-> <<"IA-2", "IA-2(1)">>,
                             soc2 |-> <<"CC6.1">>, iso27001 |-> <<"A.9.4.2">>])
    @@ (<<"PRIV", "001">> :> [cis |-> <<"1.1.3", "1.1.4">>, nist |-> <<"AC-6", "AC-6(1)", "AC-6(5)">>,
                              soc2 |-> <<"CC6.3">>, iso27001 |-> <<"A.9.2.3">>])
    @@ (<<"RISK", "001">> :> [cis |-> <<"1.2.6">>, nist |-> <<"IA-5", "SI-4">>,
                              soc2 |-> <<"CC6.1", "CC7.2">>, iso27001 |-> <<"A.9.4.3">>])
    @@ (<<"DEV", "001">> :> [cis |-> <<"3.1", "3.2">>, nist |-> <<"CM-2", "CM-6">>,
                             soc2 |-> <<"CC6.6", "CC6.7">>, iso27001 |-> <<"A.8.1.1", "A.12.6.1">>])
    @@ (<<"BKP", "001">> :> [cis |-> <<"5.1.4">>, nist |-> <<"CP-9", "CP-10">>,
                             soc2 |-> <<"A1.2">>, iso27001 |-> <<"A.12.3.1">>])
    @@ (<<"BKP", "002">> :> [cis |-> <<"5.1.4">>, nist |-> <<"CP-9">>,
                             soc2 |-> <<"A1.2">>, iso27001 |-> <<"A.12.3.1">>])
    @@ (<<"THR", "001">> :> [cis |-> <<"2.1.15">>, nist |-> <<"IR-4", "IR-5", "IR-6">>,
                             soc2 |-> <<"CC7.3", "CC7.4">>, iso27001 |-> <<"A.16.1.4", "A.16.1.5">>])

\* fw_id.upper() for the known framework ids
Upper(fw) ==
    IF fw = "cis" THEN "CIS"
    ELSE IF fw = "nist" THEN "NIST"
    ELSE IF fw = "soc2" THEN "SOC2"
    ELSE IF fw = "iso27001" THEN "ISO27001"
    ELSE fw

\* the control ids _extract_all_controls flattens out of each framework's catalog
\* document as _load_frameworks read it (a small catalog per framework; the
\* iso27001 document is the stub written for a missing file)
Catalog ==
    [cis |-> <<"1.1.1", "1.1.2", "1.1.3", "1.1.4", "1.2.6", "2.1.15", "3.1", "3.2", "5.1.4", "6.1">>,
     nist |-> <<"AC-6", "CM-2", "CP-9", "IA-2", "IA-5", "IR-4", "SI-4", "SC-7">>,
     soc2 |-> <<"CC6.1", "CC6.3", "CC6.6", "CC7.3", "A1.2">>,
     iso27001 |-> << >>]

\* a tag of framework_controls such as "CIS 1.1.2" is held as <<"CIS", "1.1.2">>;
\* the condition under which map_to_framework merges it
ExplicitApplies(ctrl, fw) ==
    \/ ctrl[1] = Upper(fw)
    \/ ctrl[1] \notin {"CIS", "NIST", "SOC2", "ISO"}

\* finding_id: the first two "-"-separated tokens of the finding's id
RuleOf(finding) ==
    LET id == Get(finding, "id", << >>)
    IN IF Len(id) >= 2 THEN <<id[1], id[2]>> ELSE << >>

\* the list framework_controls of one loop iteration, after the appends
ResolvedControls(table, fw, finding) ==
    LET mapped == Get(table, RuleOf(finding), EmptyDict)
        explicit == SelectSeq(Get(finding, "framework_controls", << >>),
                              LAMBDA c : ExplicitApplies(c, fw))
    IN Get(mapped, fw, << >>) \o [i \in 1..Len(explicit) |-> explicit[i][2]]

\* the class table after one loop iteration: the appends went to the table's own
\* list when the rule and framework are in the table
TableAfter(table, fw, finding) ==
    LET rule == RuleOf(finding)
    IN IF rule \in DOMAIN table /\ fw \in DOMAIN table[rule]
       THEN [table EXCEPT ![rule][fw] = ResolvedControls(table, fw, finding)]
       ELSE table

RECURSIVE MapFindings(_, _, _, _)
\* the loop over findings: the failed control ids, the per-control evidence
\* lists and the table it leaves
MapFindings(table, fw, findings, acc) ==
    IF findings = << >> THEN [failed |-> acc.failed, evidence |-> acc.evidence, table |-> table]
    ELSE LET f == Head(findings)
             entry == [id |-> Get(f, "id", << >>), title |-> Get(f, "title", None),
                       severity |-> Get(f, "severity", None)]
             Appended(ctrls) ==
                [failed |-> acc.failed \cup {ctrls[i] : i \in 1..Len(ctrls)},
                 evidence |->
                    [c \in (DOMAIN acc.evidence) \cup {ctrls[i] : i \in 1..Len(ctrls)} |->
                       Get(acc.evidence, c, << >>)
                       \o [k \in 1..Cardinality({i \in 1..Len(ctrls) : ctrls[i] = c}) |-> entry]]]
            \* the iteration's results are values before the next iteration reads them
         IN CHOOSE result \in
              {MapFindings(next_table, fw, rest, next_acc) :
                  next_table \in {TableAfter(table, fw, f)},
                  rest \in {Tail(findings)},
                  next_acc \in {Appended(ctrls) : ctrls \in {ResolvedControls(table, fw, f)}}} : TRUE

\* the penalty of calculate_compliance_score (grading.py): capped at 25
CriticalPenaltyCompliance(critical_count) == Min(25, critical_count * 5)

\* penalty = min(15, critical_count * 5)
CriticalPenalty(critical_count) == Min(15, critical_count * 5)

\* ComplianceMapper.map_to_framework; score in tenths of a point
MapToFramework(table, fw, findings) ==
    LET all_controls == Get(Catalog, fw, << >>)
        total_controls == Len(all_controls)
        critical_count == Len(SelectSeq(findings, LAMBDA f : Get(f, "severity", None) = "critical"))
        penalty == CriticalPenalty(critical_count)
        Result(m) ==
           LET passed_controls == total_controls - Cardinality(m.failed)
               \* (passed/total*100 - penalty) * 10 as a fraction over total_controls
               num == passed_controls * 1000 - penalty * 10 * total_controls
           IN [result |->
                 [framework |-> fw,
                  score |-> IF total_controls = 0 \/ num <= 0 THEN 0
                            ELSE RoundHalfEven(num, total_controls),
                  controls |-> [total |-> total_controls, passed |-> passed_controls,
                                failed |-> Cardinality(m.failed)],
                  failed_controls |-> m.failed,
                  control_status |->
                     [i \in 1..total_controls |->
                        [id |-> all_controls[i],
                         status |-> IF all_controls[i] \in m.failed THEN "fail" ELSE "pass",
                         findings |-> IF all_controls[i] \in m.failed
                                      THEN m.evidence[all_controls[i]] ELSE << >>]]],
               table |-> m.table]
    IN CHOOSE r \in
         {Result(m) :
             m \in {MapFindings(table, fw, findings, [failed |-> {}, evidence |-> EmptyDict])}} : TRUE

\* ------------------------------------------------------------------------
\* Comparison Engine (comparison.py)
\* ------------------------------------------------------------------------

\* score_diff inside _compare_scores; `unit` is the number of model units in a
\* tenth of a point (1 for values held in tenths, 10 for hundredths), change and
\* change_percent come out in tenths
ScoreDiff(current, previous, unit) ==
    LET change == current - previous
    IN [current |-> current,
        previous |-> previous,
        change |-> RoundHalfEven(change, unit),
        change_percent |-> IF previous > 0 THEN RoundHalfEven(change * 1000, previous) ELSE 0,
        direction |-> IF change > 0 THEN "improved"
                      ELSE IF change < 0 THEN "declined" ELSE "unchanged"]

CompareScores(current_manifest, previous_manifest) ==
    LET current_scores == Get(current_manifest, "scores", EmptyDict)
        previous_scores == Get(previous_manifest, "scores", EmptyDict)
        current_categories == Get(current_scores, "categories", EmptyDict)
        previous_categories == Get(previous_scores, "categories", EmptyDict)
        current_compliance == Get(current_scores, "compliance", EmptyDict)
        previous_compliance == Get(previous_scores, "compliance", EmptyDict)
    IN [overall |-> ScoreDiff(Get(current_scores, "overall_score", 0),
                              Get(previous_scores, "overall_score", 0), 1),
        grade |-> [current |-> Get(current_scores, "overall_grade", "?"),
                   previous |-> Get(previous_scores, "overall_grade", "?")],
        secure_score |-> ScoreDiff(Get(current_scores, "secure_score", 0),
                                   Get(previous_scores, "secure_score", 0), 1),
        categories |->
            [c \in (DOMAIN current_categories) \cup (DOMAIN previous_categories) |->
                ScoreDiff(Get(current_categories, c, 0), Get(previous_categories, c, 0), 10)],
        compliance |->
            [fw \in (DOMAIN current_compliance) \cup (DOMAIN previous_compliance) |->
                ScoreDiff(Get(current_compliance, fw, 0), Get(previous_compliance, fw, 0), 1)]]

\* finding_signature: f"{title}|{category}"
FindingSignature(f) == Get(f, "title", "") \o "|" \o Get(f, "category", "")

\* {finding_signature(f): f for f in findings}: a later finding replaces an
\* earlier one with the same signature
SignatureDict(findings) ==
    [s \in {FindingSignature(findings[i]) : i \in 1..Len(findings)} |->
        findings[CHOOSE i \in 1..Len(findings) :
                    /\ FindingSignature(findings[i]) = s
                    /\ \A j \in (i + 1)..Len(findings) : FindingSignature(findings[j]) # s]]

FindingSummary(f) ==
    [title |-> Get(f, "title", None), severity |-> Get(f, "severity", None),
     category |-> Get(f, "category", None)]

\* a diff whose persistent list has one entry per current finding rather than
\* one per current signature
CompareFindingsPerFinding(current_findings, previous_findings) ==
    LET current_sigs == SignatureDict(current_findings)
        previous_sigs == SignatureDict(previous_findings)
        resolved == {s \in DOMAIN previous_sigs : s \notin DOMAIN current_sigs}
        new_findings == {s \in DOMAIN current_sigs : s \notin DOMAIN previous_sigs}
        persistent == {s \in DOMAIN current_sigs : s \in DOMAIN previous_sigs}
        persistent_entries ==
            SelectSeq(current_findings, LAMBDA f : FindingSignature(f) \in DOMAIN previous_sigs)
    IN [summary |-> [resolved_count |-> Cardinality(resolved),
                     new_count |-> Cardinality(new_findings),
                     persistent_count |-> Len(persistent_entries),
                     net_change |-> Cardinality(resolved) - Cardinality(new_findings)],
        resolved |-> {FindingSummary(previous_sigs[s]) : s \in resolved},
        new |-> {FindingSummary(current_sigs[s]) : s \in new_findings},
        persistent |-> {FindingSummary(current_sigs[s]) : s \in persistent}]

\* _compare_findings (the three lists are held as sets of their entries)
CompareFindings(current_findings, previous_findings) ==
    LET current_sigs == SignatureDict(current_findings)
        previous_sigs == SignatureDict(previous_findings)
        resolved == {s \in DOMAIN previous_sigs : s \notin DOMAIN current_sigs}
        new_findings == {s \in DOMAIN current_sigs : s \notin DOMAIN previous_sigs}
        persistent == {s \in DOMAIN current_sigs : s \in DOMAIN previous_sigs}
    IN [summary |-> [resolved_count |-> Cardinality(resolved),
                     new_count |-> Cardinality(new_findings),
                     persistent_count |-> Cardinality(persistent),
                     net_change |-> Cardinality(resolved) - Cardinality(new_findings)],
        resolved |-> {FindingSummary(previous_sigs[s]) : s \in resolved},
        new |-> {FindingSummary(current_sigs[s]) : s \in new_findings},
        persistent |-> {FindingSummary(current_sigs[s]) : s \in persistent}]

\* a trend whose regression test includes a net change of -3
TrendInclusive(score_change, findings_change) ==
    IF score_change > 50 /\ findings_change > 0 THEN "significant_improvement"
    ELSE IF score_change > 0 \/ findings_change > 0 THEN "improvement"
    ELSE IF score_change < -50 \/ findings_change <= -3 THEN "regression"
    ELSE "stable"

\* the trend of _generate_summary; score_change in tenths of a point
Trend(score_change, findings_change) ==
    IF score_change > 50 /\ findings_change > 0 THEN "significant_improvement"
    ELSE IF score_change > 0 \/ findings_change > 0 THEN "improvement"
    ELSE IF score_change < -50 \/ findings_change < -3 THEN "regression"
    ELSE "stable"

\* the dictionary generate_comparison builds from what _load_assessments read
GenerateComparison(current_manifest, current_findings, previous_manifest, previous_findings) ==
    LET score_comparison == CompareScores(current_manifest, previous_manifest)
        findings_comparison == CompareFindings(current_findings, previous_findings)
    IN [meta |-> [current_assessment |-> Get(current_manifest, "assessment_id", None),
                  previous_assessment |-> Get(previous_manifest, "assessment_id", None)],
        score_comparison |-> score_comparison,
        findings_comparison |-> findings_comparison,
        summary |-> [trend |-> Trend(score_comparison.overall.change,
                                     findings_comparison.summary.net_change),
                     score_change |-> score_comparison.overall.change]]

\* ------------------------------------------------------------------------
\* State
\* ------------------------------------------------------------------------

VARIABLES
    fs,                 \* the filesystem: output location -> file -> [st, doc]
    outage,             \* the domains whose upstream calls raise
    runs,               \* pipeline processes started so far
    pc,                 \* where run_assessment is
    idx,                \* position in the collect sequence / the current save loop
    wst,                \* the open() of the current save: "closed", "open", "flushed"
    args,               \* the command line of the running process
    assessment_id,      \* AssessmentEngine.assessment_id
    raw_data,           \* AssessmentEngine.raw_data
    findings,           \* AssessmentEngine.findings
    scores,             \* AssessmentEngine.scores
    compliance_results, \* AssessmentEngine.compliance_results
    control_map,        \* ComplianceMapper.FINDING_TO_CONTROL_MAP of this process
    loaded,             \* what ComparisonEngine._load_assessments read
    comparison,         \* the dictionary generate_comparison built
    call,               \* a direct call of a grading function: its name and arguments
    ret                 \* what that call returned

vars == <<fs, outage, runs, pc, idx, wst, args, assessment_id, raw_data, findings,
          scores, compliance_results, control_map, loaded, comparison, call, ret>>

engine_vars == <<assessment_id, raw_data, findings, scores, compliance_results, control_map>>

\* str(uuid.uuid4()) of the n-th process: fresh each time
Uuid(n) == ToString(n)

\* no grading function is being called directly
NoCall == [fn |-> "none"]

\* the call has not returned
NoResult == [done |-> FALSE]

NoArgs ==
    [output_dir |-> None, compare_with |-> None, credentials |-> TRUE, dry_run |-> FALSE,
     keep_raw_data |-> FALSE, skip_pdf |-> FALSE, frameworks |-> DefaultFrameworks]

\* get_output_dir
get_output_dir(a) == IF a.output_dir # None THEN a.output_dir ELSE DefaultDir

OutputDir == get_output_dir(args)

EmptyFS == [d \in Dirs |-> [f \in FileNames |-> Absent]]

Init ==
    /\ fs = EmptyFS
    /\ outage \in SUBSET Domains
    /\ runs = 0
    /\ pc = "idle"
    /\ idx = 1
    /\ wst = "closed"
    /\ args = NoArgs
    /\ assessment_id = None
    /\ raw_data = EmptyDict
    /\ findings = << >>
    /\ scores = EmptyDict
    /\ compliance_results = EmptyDict
    /\ control_map = FINDING_TO_CONTROL_MAP
    /\ loaded = EmptyDict
    /\ comparison = EmptyDict
    /\ call = NoCall
    /\ ret = NoResult

\* Path.exists()
Exists(dir, file) == fs[dir][file].st # "absent"

\* what open(path).read() gives a reader at this instant
ReaderSees(dir, file) == fs[dir][file].st

\* ------------------------------------------------------------------------
\* run_assessment: start of a process
\* ------------------------------------------------------------------------

Ended == pc \in {"idle", "done", "failed", "exit1", "dry_done"}

\* main() -> run_assessment up to and including AssessmentEngine.__init__
StartRun ==
    /\ Ended
    /\ runs < MaxRuns
    /\ \E od \in {None} \cup ExplicitDirs, cw \in {None} \cup Dirs,
          creds \in BOOLEAN, dry \in BOOLEAN :
         /\ args' = [NoArgs EXCEPT !.output_dir = od, !.compare_with = cw,
                                    !.credentials = creds, !.dry_run = dry]
         /\ pc' = IF ~creds THEN "exit1" ELSE IF dry THEN "dry_done" ELSE "collect"
         /\ assessment_id' = IF creds /\ ~dry THEN Uuid(runs + 1) ELSE None
    /\ runs' = runs + 1
    /\ idx' = 1
    /\ wst' = "closed"
    /\ raw_data' = EmptyDict
    /\ findings' = << >>
    /\ scores' = EmptyDict
    /\ compliance_results' = EmptyDict
    /\ control_map' = FINDING_TO_CONTROL_MAP
    /\ loaded' = EmptyDict
    /\ comparison' = EmptyDict
    /\ UNCHANGED <<fs, outage, call, ret>>

\* ------------------------------------------------------------------------
\* AssessmentEngine.collect_all
\* ------------------------------------------------------------------------

\* whether the domain's collector raises when called
CollectorRaises(d) == d \in outage

\* _collect_<domain>: what the call gives collect_all; _collect_backup catches
\* its collector's exception itself
CollectDomain(d) ==
    IF d = "backup"
    THEN [raised |-> FALSE,
          value |-> IF CollectorRaises(d) THEN BackupNotConfiguredStub ELSE CollectorData[d]]
    ELSE [raised |-> CollectorRaises(d), value |-> CollectorData[d]]

\* one try/except block of collect_all: the entry stored for the domain
CollectedEntry(d) ==
    LET r == CollectDomain(d)
    IN IF r.raised THEN ErrorSentinel ELSE r.value

\* a collect_all whose except clauses re-raise: the exception leaves the run
AfterCollectPropagating(i) ==
    IF CollectDomain(DomainOrder[i]).raised THEN "failed"
    ELSE IF i < Len(DomainOrder) THEN "collect" ELSE "save_raw"

\* a collect_all that returns without calling _save_raw_data
AfterCollectUnsaved(i) == IF i < Len(DomainOrder) THEN "collect" ELSE "analyze_findings"

\* where collect_all goes after the i-th block
AfterCollect(i) == IF i < Len(DomainOrder) THEN "collect" ELSE "save_raw"

Collect ==
    /\ pc = "collect"
    /\ raw_data' = Put(raw_data, DomainOrder[idx], CollectedEntry(DomainOrder[idx]))
    /\ pc' = AfterCollect(idx)
    /\ idx' = IF idx < Len(DomainOrder) THEN idx + 1 ELSE 1
    /\ UNCHANGED <<fs, outage, call, ret, runs, wst, args, assessment_id, findings, scores,
                   compliance_results, control_map, loaded, comparison>>

\* ------------------------------------------------------------------------
\* Saving: open(path, "w"), json.dump, close
\* ------------------------------------------------------------------------

SaveStages == {"save_raw", "save_analysis", "save_comparison", "save_manifest"}

\* self.raw_data.items(): the keys in insertion order
RawKeys == SelectSeq(DomainOrder, LAMBDA d : d \in DOMAIN raw_data)

\* AssessmentEngine.get_manifest
GetManifest ==
    [assessment_id |-> assessment_id,
     scores |-> scores,
     findings |->
        [sev \in {"critical", "high", "medium", "low", "informational"} |->
            Len(SelectSeq(findings, LAMBDA f : Get(f, "severity", None) = sev))],
     frameworks |-> args.frameworks]

\* the (file, document) pairs the save loop of a stage writes, in order:
\* _save_raw_data, _save_analysis, _save_comparison, the manifest of run_assessment
WritePlan(stage) ==
    IF stage = "save_raw"
    THEN [i \in 1..Len(RawKeys) |-> [file |-> RawFile(RawKeys[i]), doc |-> raw_data[RawKeys[i]]]]
    ELSE IF stage = "save_analysis"
    THEN <<[file |-> FindingsFile, doc |-> findings], [file |-> ScoresFile, doc |-> scores]>>
         \o [i \in 1..Len(args.frameworks) |->
               [file |-> ComplianceFile(args.frameworks[i]),
                doc |-> Get(compliance_results, args.frameworks[i], EmptyDict)]]
    ELSE IF stage = "save_comparison"
    THEN <<[file |-> ComparisonFile, doc |-> comparison]>>
    ELSE <<[file |-> ManifestFile, doc |-> GetManifest]>>

\* the statement that follows each save in run_assessment / analyze
AfterSave(stage) ==
    IF stage = "save_raw" THEN "analyze_findings"
    ELSE IF stage = "save_analysis" THEN "compare"
    ELSE IF stage = "save_comparison" THEN "reports"
    ELSE "done"

SetFile(dir, file, state) == [fs EXCEPT ![dir][file] = state]

\* a save that puts comparison.json under the previous assessment
SaveDirPrevious(stage) ==
    IF stage = "save_comparison" THEN args.compare_with ELSE OutputDir

\* the directory a stage's files go under: self.output_dir for the engine's
\* saves and the manifest, self.current_dir (the same path) for the comparison
SaveDir(stage) == OutputDir

\* open(path, "w"): the file exists and is empty
WriteOpen ==
    /\ pc \in SaveStages
    /\ wst = "closed"
    /\ fs' = SetFile(SaveDir(pc), WritePlan(pc)[idx].file, [st |-> "truncated", doc |-> EmptyDict])
    /\ wst' = "open"
    /\ UNCHANGED <<outage, call, ret, runs, pc, idx, args, loaded, comparison>>
    /\ UNCHANGED engine_vars

\* json.dump writes the document piece by piece into the buffered file: a full
\* buffer is flushed before the document is complete
WriteFlush ==
    /\ pc \in SaveStages
    /\ wst = "open"
    /\ fs' = SetFile(SaveDir(pc), WritePlan(pc)[idx].file, [st |-> "partial", doc |-> EmptyDict])
    /\ wst' = "flushed"
    /\ UNCHANGED <<outage, call, ret, runs, pc, idx, args, loaded, comparison>>
    /\ UNCHANGED engine_vars

\* leaving the with block: the rest is flushed and the file closed
WriteClose ==
    /\ pc \in SaveStages
    /\ wst \in {"open", "flushed"}
    /\ fs' = SetFile(SaveDir(pc), WritePlan(pc)[idx].file,
                     [st |-> "complete", doc |-> WritePlan(pc)[idx].doc])
    /\ wst' = "closed"
    /\ IF idx < Len(WritePlan(pc))
       THEN /\ idx' = idx + 1
            /\ pc' = pc
       ELSE /\ idx' = 1
            /\ pc' = AfterSave(pc)
    /\ UNCHANGED <<outage, call, ret, runs, args, loaded, comparison>>
    /\ UNCHANGED engine_vars

\* ------------------------------------------------------------------------
\* AssessmentEngine.analyze
\* ------------------------------------------------------------------------

AnalyzeFindings ==
    /\ pc = "analyze_findings"
    /\ findings' = GenerateFindings(raw_data, assessment_id)
    /\ pc' = "analyze_scores"
    /\ UNCHANGED <<fs, outage, call, ret, runs, idx, wst, args, assessment_id, raw_data, scores,
                   compliance_results, control_map, loaded, comparison>>

AnalyzeScores ==
    /\ pc = "analyze_scores"
    /\ scores' = CalculateScores(raw_data)
    /\ pc' = "analyze_map"
    /\ UNCHANGED <<fs, outage, call, ret, runs, idx, wst, args, assessment_id, raw_data, findings,
                   compliance_results, control_map, loaded, comparison>>

RECURSIVE MapFrameworks(_, _, _, _)
\* the loop of _map_to_frameworks: results, the compliance scores put into
\* self.scores, and the class table the calls leave
MapFrameworks(table, frameworks, fs_findings, acc) ==
    IF frameworks = << >> THEN [results |-> acc.results, compliance |-> acc.compliance, table |-> table]
    ELSE LET Added(m) ==
                [table |-> m.table,
                 acc |-> [results |-> Put(acc.results, Head(frameworks), m.result),
                          compliance |-> Put(acc.compliance, Head(frameworks),
                                             Get(m.result, "score", 0))]]
            \* the iteration's results are values before the next iteration reads them
         IN CHOOSE result \in
              {MapFrameworks(next.table, rest, fs_findings, next.acc) :
                  next \in {Added(m) : m \in {MapToFramework(table, Head(frameworks), fs_findings)}},
                  rest \in {Tail(frameworks)}} : TRUE

AnalyzeMap ==
    /\ pc = "analyze_map"
    /\ \E m \in {MapFrameworks(control_map, args.frameworks, findings,
                               [results |-> EmptyDict, compliance |-> EmptyDict])} :
          /\ compliance_results' = m.results
          /\ scores' = IF args.frameworks = << >> THEN scores
                       ELSE Put(scores, "compliance", m.compliance)
          /\ control_map' = m.table
    /\ pc' = "save_analysis"
    /\ UNCHANGED <<fs, outage, call, ret, runs, idx, wst, args, assessment_id, raw_data, findings,
                   loaded, comparison>>

\* ------------------------------------------------------------------------
\* run_assessment: comparison, reports, cleanup, manifest
\* ------------------------------------------------------------------------

\* `if args.compare_with:` is false
SkipCompare ==
    /\ pc = "compare"
    /\ args.compare_with = None
    /\ pc' = "reports"
    /\ UNCHANGED <<fs, outage, call, ret, runs, idx, wst, args, loaded, comparison>>
    /\ UNCHANGED engine_vars

\* json.load of a file that exists
ReadJson(dir, file) == fs[dir][file].doc

\* ComparisonEngine._load_assessments: the four documents, or the exception
LoadAssessments(current_dir, previous_dir) ==
    IF ~Exists(previous_dir, ManifestFile)
    THEN [raised |-> TRUE, data |-> EmptyDict]
    ELSE [raised |-> FALSE,
          data |->
            [current_manifest |-> IF Exists(current_dir, ManifestFile)
                                  THEN ReadJson(current_dir, ManifestFile) ELSE EmptyDict,
             current_findings |-> IF Exists(current_dir, FindingsFile)
                                  THEN ReadJson(current_dir, FindingsFile) ELSE << >>,
             previous_manifest |-> ReadJson(previous_dir, ManifestFile),
             previous_findings |-> IF Exists(previous_dir, FindingsFile)
                                   THEN ReadJson(previous_dir, FindingsFile) ELSE << >>]]

\* ComparisonEngine(current_dir=output_dir, previous_dir=args.compare_with); an
\* exception leaves run_assessment and main() exits with status 1
CompareLoad ==
    /\ pc = "compare"
    /\ args.compare_with # None
    /\ LET l == LoadAssessments(OutputDir, args.compare_with)
       IN IF l.raised
          THEN /\ pc' = "failed"
               /\ loaded' = loaded
          ELSE /\ pc' = "compare_generate"
               /\ loaded' = l.data
    /\ UNCHANGED <<fs, outage, call, ret, runs, idx, wst, args, comparison>>
    /\ UNCHANGED engine_vars

\* generate_comparison up to _save_comparison
CompareGenerate ==
    /\ pc = "compare_generate"
    /\ comparison' = GenerateComparison(loaded.current_manifest, loaded.current_findings,
                                        loaded.previous_manifest, loaded.previous_findings)
    /\ pc' = "save_comparison"
    /\ UNCHANGED <<fs, outage, call, ret, runs, idx, wst, args, loaded>>
    /\ UNCHANGED engine_vars

\* `if not args.skip_pdf: await engine.generate_reports()`: the PDFs go to
\* reports/, which is not tracked
Reports ==
    /\ pc = "reports"
    /\ \E skip \in BOOLEAN : args' = [args EXCEPT !.skip_pdf = skip]
    /\ pc' = "cleanup"
    /\ UNCHANGED <<fs, outage, call, ret, runs, idx, wst, loaded, comparison>>
    /\ UNCHANGED engine_vars

\* a cleanup that ignores --keep-raw-data
CleanupRawDataAlways(files, keep_raw_data) ==
    [f \in FileNames |-> IF f \in RawFiles THEN Absent ELSE files[f]]

\* the files of an output location after `if not args.keep_raw_data:
\* engine.cleanup_raw_data()`: shutil.rmtree(raw_dir)
CleanupRawData(files, keep_raw_data) ==
    IF keep_raw_data THEN files
    ELSE [f \in FileNames |-> IF f \in RawFiles THEN Absent ELSE files[f]]

Cleanup ==
    /\ pc = "cleanup"
    /\ \E keep \in BOOLEAN :
         /\ args' = [args EXCEPT !.keep_raw_data = keep]
         /\ fs' = [fs EXCEPT ![OutputDir] = CleanupRawData(fs[OutputDir], keep)]
    /\ pc' = "save_manifest"
    /\ UNCHANGED <<outage, call, ret, runs, idx, wst, loaded, comparison>>
    /\ UNCHANGED engine_vars

\* ------------------------------------------------------------------------
\* Specification
\* ------------------------------------------------------------------------

\* the steps of a started process
Step ==
    \/ Collect
    \/ WriteOpen
    \/ WriteFlush
    \/ WriteClose
    \/ AnalyzeFindings
    \/ AnalyzeScores
    \/ AnalyzeMap
    \/ SkipCompare
    \/ CompareLoad
    \/ CompareGenerate
    \/ Reports
    \/ Cleanup

Next == StartRun \/ Step

Spec == Init /\ [][Next]_vars

\* the runs in which every collector call fails
TotalFailureInit == Init /\ outage = Domains

\* total collection failure, and a started process keeps running: the
\* interpreter executes the next statement
TotalFailureSpec == TotalFailureInit /\ [][Next]_vars /\ WF_vars(Step)

\* ------------------------------------------------------------------------
\* Direct calls of the grading functions (grading.py)
\* ------------------------------------------------------------------------

pipeline_vars == <<fs, outage, runs, pc, idx, wst, args, assessment_id, raw_data, findings,
                   scores, compliance_results, control_map, loaded, comparison>>

\* no pipeline process has run, and every collector would answer
PipelineIdle ==
    /\ fs = EmptyFS
    /\ outage = {}
    /\ runs = 0
    /\ pc = "idle"
    /\ idx = 1
    /\ wst = "closed"
    /\ args = NoArgs
    /\ assessment_id = None
    /\ raw_data = EmptyDict
    /\ findings = << >>
    /\ scores = EmptyDict
    /\ compliance_results = EmptyDict
    /\ control_map = FINDING_TO_CONTROL_MAP
    /\ loaded = EmptyDict
    /\ comparison = EmptyDict

\* secure_score arguments, in points: in range and out of range
SecureScoreSamples == {-100, 0, 70, 100, 300}

\* category score arguments, in hundredths of a point: in range and out of range
CategorySamples == {-5000, 0, 10000, 25000}

\* the category keys calculate_overall_score reads
CategoryNames == DOMAIN Weights

\* category_scores arguments: any categories may be missing
CategoryDicts == UNION {[present -> CategorySamples] : present \in SUBSET CategoryNames}

\* the worked example: secure 70, identity 80, data_protection 60, backup 90,
\* devices 75, network 65
ExampleCall ==
    [fn |-> "calculate_overall_score", secure_score |-> 70,
     category_scores |-> [identity |-> 8000, data_protection |-> 6000, backup |-> 9000,
                          devices |-> 7500, network |-> 6500]]

\* the lower ends of the bands B..A... of calculate_grade, in 1/10000 of a point
GradeBoundaries == {400000, 600000, 750000, 900000}

\* score arguments of calculate_grade in [0,100]: every whole point and the
\* nearest values on both sides of each boundary
GradeSamples ==
    {k * 10000 : k \in 0..100} \cup {b + e : b \in GradeBoundaries, e \in {-1, 1}}

\* raw snapshots for _calculate_scores: the secure score in steps of ten points
\* and every whole user MFA coverage, the other domains without an entry
ScoredSnapshots ==
    {[secure_score |-> [score |-> [current_score |-> 10 * s]],
      identity |-> [mfa_coverage |-> [admin_coverage_percent |-> 100,
                                      user_coverage_percent |-> u]]] :
        s \in 0..10, u \in 0..100}

GradingCalls ==
    {[fn |-> "calculate_overall_score", secure_score |-> s, category_scores |-> c] :
        s \in SecureScoreSamples, c \in CategoryDicts}
    \cup {ExampleCall}
    \cup {[fn |-> "calculate_grade", score |-> s] : s \in GradeSamples}
    \cup {[fn |-> "_calculate_scores", raw |-> r] : r \in ScoredSnapshots}

GradingInit ==
    /\ PipelineIdle
    /\ call \in GradingCalls
    /\ ret = NoResult

\* calculate_overall_score(secure_score, category_scores) is called and returns
CallOverallScore ==
    /\ call.fn = "calculate_overall_score"
    /\ ~ret.done
    /\ ret' = [done |-> TRUE,
               value |-> calculate_overall_score(call.secure_score, call.category_scores)]
    /\ UNCHANGED <<pipeline_vars, call>>

\* calculate_grade(score) is called and returns
CallGrade ==
    /\ call.fn = "calculate_grade"
    /\ ~ret.done
    /\ ret' = [done |-> TRUE, value |-> calculate_grade(call.score)]
    /\ UNCHANGED <<pipeline_vars, call>>

\* AssessmentEngine._calculate_scores() on an engine holding the snapshot
CallCalculateScores ==
    /\ call.fn = "_calculate_scores"
    /\ ~ret.done
    /\ ret' = [done |-> TRUE, value |-> CalculateScores(call.raw)]
    /\ UNCHANGED <<pipeline_vars, call>>

GradingNext == CallOverallScore \/ CallGrade \/ CallCalculateScores

GradingSpec == GradingInit /\ [][GradingNext]_vars

\* ------------------------------------------------------------------------
\* AssessmentEngine.analyze on a given raw snapshot
\* ------------------------------------------------------------------------

\* the domain has no entry in raw_data
Missing == [missing |-> TRUE]

\* secure-score controls whose names match the data and the network keywords,
\* the first with a score above its max_score
KeywordControls ==
    <<[name |-> {"encrypt", "data"}, score |-> 12, max_score |-> 10],
      [name |-> {"firewall"}, score |-> 3, max_score |-> 10]>>

\* identity entries over admin and user MFA coverage
IdentityEntries ==
    {[CollectorData.identity EXCEPT !.mfa_coverage.admin_coverage_percent = a,
                                    !.mfa_coverage.user_coverage_percent = u] :
        a \in {60, 99, 100}, u \in {79, 80, 82, 95}}

\* devices entries over compliance_percent, in range and out of range
DeviceEntries ==
    {[CollectorData.devices EXCEPT !.compliance.compliance_percent = c] :
        c \in {-10, 75, 90, 150}}

\* backup entries: not configured (with and without a coverage figure) and
\* configured over protected_percent
BackupEntries ==
    {BackupNotConfiguredStub,
     [BackupNotConfiguredStub EXCEPT !.health = [status |-> "not_configured",
                                                 protected_percent |-> 50]]}
    \cup {[CollectorData.backup EXCEPT !.health.protected_percent = c] :
            c \in {80, 89, 90, 100}}

\* per domain: no entry, the error sentinel, or collected data
EntryChoices ==
    [secure_score : {Missing, ErrorSentinel, CollectorData.secure_score,
                     [CollectorData.secure_score EXCEPT !.controls = KeywordControls]},
     identity : {Missing, ErrorSentinel} \cup IdentityEntries,
     devices : {Missing, ErrorSentinel} \cup DeviceEntries,
     threats : {Missing, ErrorSentinel, CollectorData.threats},
     backup : {Missing, ErrorSentinel} \cup BackupEntries]

\* the raw_data dict of a choice of entries
SnapshotOf(choice) == [d \in {e \in Domains : choice[e] # Missing} |-> choice[d]]

\* raw snapshots handed to analyze
Snapshots == {SnapshotOf(choice) : choice \in EntryChoices}

\* assessment ids of two engines
EngineIds == {Uuid(1), Uuid(2)}

\* an engine holding a raw snapshot, as analyze() begins
AnalysisInit ==
    /\ fs = EmptyFS
    /\ outage = {}
    /\ runs = 1
    /\ pc = "analyze_findings"
    /\ idx = 1
    /\ wst = "closed"
    /\ args = NoArgs
    /\ assessment_id \in EngineIds
    /\ raw_data \in Snapshots
    /\ findings = << >>
    /\ scores = EmptyDict
    /\ compliance_results = EmptyDict
    /\ control_map = FINDING_TO_CONTROL_MAP
    /\ loaded = EmptyDict
    /\ comparison = EmptyDict
    /\ call = NoCall
    /\ ret = NoResult

AnalysisNext == AnalyzeFindings \/ AnalyzeScores \/ AnalyzeMap

AnalysisSpec == AnalysisInit /\ [][AnalysisNext]_vars

\* ------------------------------------------------------------------------
\* Direct calls of ComplianceMapper.map_to_framework (mapper.py)
\* ------------------------------------------------------------------------

\* the device finding as _generate_findings emits it, critical
DeviceFinding ==
    Finding(<<"DEV", "001">>, Uuid(1), "Non-Compliant Devices", "critical", "devices",
            <<<<"CIS", "3.1">>, <<"NIST", "CM-2">>, <<"SOC2", "CC6.6">>>>)

\* the same finding carrying no explicit tag
DeviceFindingUntagged == [DeviceFinding EXCEPT !.framework_controls = << >>]

\* the same finding tagged with a control the static table does not list for it
DeviceFindingOtherTag == [DeviceFinding EXCEPT !.framework_controls = <<<<"CIS", "6.1">>>>]

\* finding lists handed to map_to_framework
MapperFindingLists ==
    {<< >>,
     <<DeviceFinding>>,
     <<DeviceFindingUntagged>>,
     <<DeviceFindingOtherTag>>,
     <<DeviceFindingUntagged, DeviceFindingUntagged, DeviceFindingUntagged, DeviceFindingUntagged>>,
     GenerateFindings(CollectorData, Uuid(2))}

\* framework ids handed to map_to_framework: the four known ones (iso27001 has
\* the zero-control stub) and one that is not known
MapperFrameworks == {DefaultFrameworks[i] : i \in 1..Len(DefaultFrameworks)} \cup {"pci"}

\* the number of calls of map_to_framework made so far
CallsMade == IF call.fn = "map_to_framework" THEN call.n ELSE 0

MapperInit ==
    /\ PipelineIdle
    /\ call = NoCall
    /\ ret = NoResult

\* map_to_framework(framework, findings, raw_data) is called and returns; the
\* class table is left as the call's appends made it
CallMapToFramework ==
    /\ call.fn \in {"none", "map_to_framework"}
    /\ CallsMade < MaxCalls
    /\ \E fw \in MapperFrameworks, fl \in MapperFindingLists :
          \E m \in {MapToFramework(control_map, fw, fl)} :
             /\ call' = [fn |-> "map_to_framework", n |-> CallsMade + 1,
                         framework |-> fw, findings |-> fl]
             /\ ret' = [done |-> TRUE, value |-> m.result]
             /\ control_map' = m.table
    /\ UNCHANGED <<fs, outage, runs, pc, idx, wst, args, assessment_id, raw_data, findings,
                   scores, compliance_results, loaded, comparison>>

MapperNext == CallMapToFramework

MapperSpec == MapperInit /\ [][MapperNext]_vars

\* ------------------------------------------------------------------------
\* Direct calls of the ComparisonEngine's functions (comparison.py)
\* ------------------------------------------------------------------------

\* a finding as findings.json holds it, of a rule with no explicit tags
ComparedFinding(aid, title, category, severity) ==
    Finding(<<"CMP", "001">>, aid, title, severity, category, << >>)

\* findings of two assessments: the same (title, category) under different ids
\* and severities, and titles and categories that contain the separator "|"
ComparedFindings ==
    {ComparedFinding(Uuid(1), "Users Without MFA", "identity", "high"),
     ComparedFinding(Uuid(2), "Users Without MFA", "identity", "critical"),
     ComparedFinding(Uuid(1), "Non-Compliant Devices", "devices", "high"),
     ComparedFinding(Uuid(1), "a|b", "c", "high"),
     ComparedFinding(Uuid(2), "a", "b|c", "high")}

\* finding lists of up to two findings
ComparedFindingLists ==
    {<< >>} \cup {<<f>> : f \in ComparedFindings}
    \cup {<<f, g>> : f \in ComparedFindings, g \in ComparedFindings}

\* overall.change values, in tenths of a point, around the thresholds 0, 5 and -5
ScoreChanges == {-60, -51, -50, -1, 0, 1, 50, 51, 60}

\* net_change values around the thresholds 0 and -3
NetChanges == -5..5

\* a dict read from JSON that has no keys
NoKeys == [k \in {} |-> 0]

\* category dicts of a manifest, in hundredths (a devices score below 0 comes
\* from an out-of-range compliance_percent)
ComparedCategories ==
    {NoKeys, [devices |-> -1000], [devices |-> 7500, identity |-> 8984]}

\* manifests: one without scores, and score records over a few values
ComparedManifests ==
    {NoKeys}
    \cup {[scores |-> [overall_score |-> o, overall_grade |-> calculate_grade(o * 1000),
                       secure_score |-> ss, categories |-> cats, compliance |-> comp]] :
            o \in {0, 562, 750}, ss \in {0, 700}, cats \in ComparedCategories,
            comp \in {NoKeys, [cis |-> 0], [cis |-> 750, nist |-> 125]}}

ComparisonCalls ==
    {[fn |-> "_compare_findings", current |-> c, previous |-> p] :
        c \in ComparedFindingLists, p \in ComparedFindingLists}
    \cup {[fn |-> "_generate_summary", score_change |-> sc, net_change |-> n] :
            sc \in ScoreChanges, n \in NetChanges}
    \cup {[fn |-> "_compare_scores", current_manifest |-> c, previous_manifest |-> p] :
            c \in ComparedManifests, p \in ComparedManifests}

ComparisonInit ==
    /\ PipelineIdle
    /\ call \in ComparisonCalls
    /\ ret = NoResult

\* _compare_findings() on the two loaded finding lists
CallCompareFindings ==
    /\ call.fn = "_compare_findings"
    /\ ~ret.done
    /\ ret' = [done |-> TRUE, value |-> CompareFindings(call.current, call.previous)]
    /\ UNCHANGED <<pipeline_vars, call>>

\* the trend _generate_summary derives from overall.change and net_change
CallGenerateSummary ==
    /\ call.fn = "_generate_summary"
    /\ ~ret.done
    /\ ret' = [done |-> TRUE, value |-> Trend(call.score_change, call.net_change)]
    /\ UNCHANGED <<pipeline_vars, call>>

\* _compare_scores() on the two loaded manifests
CallCompareScores ==
    /\ call.fn = "_compare_scores"
    /\ ~ret.done
    /\ ret' = [done |-> TRUE,
               value |-> CompareScores(call.current_manifest, call.previous_manifest)]
    /\ UNCHANGED <<pipeline_vars, call>>

ComparisonNext == CallCompareFindings \/ CallGenerateSummary \/ CallCompareScores

ComparisonSpec == ComparisonInit /\ [][ComparisonNext]_vars

\* ------------------------------------------------------------------------
\* Properties
\* ------------------------------------------------------------------------

\* collect_all has returned in the running (or just ended) process
Collected ==
    pc \in {"save_raw", "analyze_findings", "analyze_scores", "analyze_map", "save_analysis",
            "compare", "compare_generate", "save_comparison", "reports", "cleanup",
            "save_manifest", "done", "failed"}

\* two file states a reader cannot tell apart
FileSame(a, b) == a.st = b.st /\ (a.st = "complete" => a.doc = b.doc)

\* manifest.json of the running process is on disk
ManifestWritten ==
    /\ fs[OutputDir][ManifestFile].st = "complete"
    /\ fs[OutputDir][ManifestFile].doc.assessment_id = assessment_id

\* C1: once collect_all has returned, the raw snapshot has all five domain keys,
\* the entry of every domain whose collector raised is the {error: message}
\* sentinel, and the entry of every other domain is what its collector returned.
C1_IsolatedCollectionFailure ==
    Collected =>
        /\ DOMAIN raw_data = Domains
        /\ \A d \in Domains :
              raw_data[d] = IF CollectorRaises(d) THEN ErrorSentinel ELSE CollectorData[d]

\* C2: whenever a domain's collector call failed, that domain's raw-snapshot
\* entry is the error sentinel, for each of the five domains, backup included.
C2_FailedDomainIsErrorSentinel ==
    Collected => \A d \in Domains : CollectorRaises(d) => "error" \in DOMAIN raw_data[d]

\* the comparison step of the running process will raise: --compare-with names
\* a directory without manifest.json
CompareWillFail == args.compare_with # None /\ ~Exists(args.compare_with, ManifestFile)

\* C3: a run with valid configuration in which every collector fails, and whose
\* comparison step (if any) finds the previous manifest, runs analysis to
\* completion and eventually writes manifest.json with the scores it computed.
C3_TotalFailureStillEmitsManifest ==
    (pc = "collect" /\ idx = 1 /\ outage = Domains /\ ~CompareWillFail)
        ~> (/\ pc = "done"
            /\ ManifestWritten
            /\ fs[OutputDir][ManifestFile].doc.scores = scores
            /\ "overall_score" \in DOMAIN scores
            /\ fs[OutputDir][FindingsFile].st = "complete")

C3_Witness ==
    /\ pc = "done"
    /\ outage = Domains
    /\ ManifestWritten
    /\ \A d \in Domains \ {"backup"} : raw_data[d] = ErrorSentinel

\* C4: when --compare-with names a directory without manifest.json, the run that
\* ends on that failure has still emitted its manifest.json, and its analysis
\* artifacts remain.
C4_CompareFailureKeepsAssessment ==
    pc = "failed" =>
        /\ ManifestWritten
        /\ \A f \in AnalysisFiles : fs[OutputDir][f].st = "complete"

\* C5: when the Comparison Engine has loaded the two assessments, the current
\* one is the persisted manifest of the running assessment, so the current
\* overall score it compares is the score this run computed.
C5_ComparisonReadsCurrentManifest ==
    pc = "compare_generate" =>
        /\ Get(loaded.current_manifest, "assessment_id", None) = assessment_id
        /\ Get(Get(loaded.current_manifest, "scores", EmptyDict), "overall_score", 0)
              = scores.overall_score

C7_CompletedAssessmentNeverOverwritten ==
    [][\A d \in Dirs :
          fs[d][ManifestFile].st = "complete" =>
              \A f \in FileNames : FileSame(fs[d][f], fs'[d][f])]_vars

\* C8: while analysis runs or its results are saved, all five domains are
\* resolved and every domain's entry is in raw_data/<domain>.json; before that
\* point analysis has produced nothing.
C8_AnalysisAfterCollectionAndSave ==
    /\ pc \in {"analyze_findings", "analyze_scores", "analyze_map", "save_analysis"} =>
          /\ DOMAIN raw_data = Domains
          /\ \A d \in Domains :
                /\ fs[OutputDir][RawFile(d)].st = "complete"
                /\ fs[OutputDir][RawFile(d)].doc = raw_data[d]
    /\ pc \in {"collect", "save_raw"} =>
          /\ findings = << >>
          /\ DOMAIN scores = {}
          /\ DOMAIN compliance_results = {}

C8_Witness ==
    /\ pc = "analyze_scores"
    /\ findings # << >>
    /\ raw_data["devices"] = ErrorSentinel

\* the comparison step is running
Comparing == pc \in {"compare_generate", "save_comparison"}

C10_ArtifactWritesAllOrNothing ==
    \A d \in Dirs, f \in RawFiles \cup AnalysisFiles \cup {ComparisonFile} :
        ReaderSees(d, f) # "partial"

\* C11: whatever the secure score and the category scores (missing
\* categories, values below 0 or above 100), calculate_overall_score returns a
\* value in [0,100].
C11_OverallScoreBounded ==
    (call.fn = "calculate_overall_score" /\ ret.done) =>
        (0 <= ret.value /\ ret.value <= 1000000)

C11_Witness ==
    /\ call.fn = "calculate_overall_score"
    /\ ret.done
    /\ call.secure_score = 300
    /\ "identity" \notin DOMAIN call.category_scores
    /\ Get(call.category_scores, "backup", 0) = 25000
    /\ Get(call.category_scores, "devices", 0) = -5000
    /\ ret.value = 1000000

\* rank of a grade under F < D < C < B < A
GradeRank(grade) ==
    CASE grade = "F" -> 0 [] grade = "D" -> 1 [] grade = "C" -> 2
      [] grade = "B" -> 3 [] grade = "A" -> 4

\* C13: on [0,100] calculate_grade returns A exactly on [90,100], B on [75,90),
\* C on [60,75), D on [40,60), F on [0,40); and no score below the one graded
\* has a better grade.
C13_GradeBanding ==
    (call.fn = "calculate_grade" /\ ret.done) =>
        /\ ret.value = "A" <=> (900000 <= call.score /\ call.score <= 1000000)
        /\ ret.value = "B" <=> (750000 <= call.score /\ call.score < 900000)
        /\ ret.value = "C" <=> (600000 <= call.score /\ call.score < 750000)
        /\ ret.value = "D" <=> (400000 <= call.score /\ call.score < 600000)
        /\ ret.value = "F" <=> (0 <= call.score /\ call.score < 400000)
        /\ \A s1 \in GradeSamples :
              s1 <= call.score => GradeRank(calculate_grade(s1)) <= GradeRank(ret.value)

C13_Witness ==
    /\ call.fn = "calculate_grade"
    /\ ret.done
    /\ call.score = 900000
    /\ ret.value = "A"

\* a category's value in the overall formula: 50 when the key is missing
CategoryOrNeutral(cats, name) == IF name \in DOMAIN cats THEN cats[name] ELSE 5000

\* C14: calculate_overall_score(secure, cats) is the clip to [0,100] of
\* 0.30*secure + 0.25*identity + 0.15*data_protection + 0.15*backup
\* + 0.10*devices + 0.05*network, a missing category counting as 50.
C14_OverallScoreFormula ==
    (call.fn = "calculate_overall_score" /\ ret.done) =>
        LET sum == 3000 * call.secure_score
                   + 25 * CategoryOrNeutral(call.category_scores, "identity")
                   + 15 * CategoryOrNeutral(call.category_scores, "data_protection")
                   + 15 * CategoryOrNeutral(call.category_scores, "backup")
                   + 10 * CategoryOrNeutral(call.category_scores, "devices")
                   + 5 * CategoryOrNeutral(call.category_scores, "network")
        IN ret.value = (IF sum < 0 THEN 0 ELSE IF sum > 1000000 THEN 1000000 ELSE sum)

\* the worked example gives 74.25, grade C
C14_Witness ==
    /\ call = ExampleCall
    /\ ret.done
    /\ ret.value = 742500
    /\ calculate_grade(ret.value) = "C"

\* the domain's entry is absent from raw_data or is the error sentinel
Unavailable(d) == d \notin DOMAIN raw_data \/ raw_data[d] = ErrorSentinel

\* _calculate_scores has stored its result
Scored == pc \in {"analyze_map", "save_analysis"} /\ "categories" \in DOMAIN scores

\* C12: every category score that calculate_category_scores returns lies in
\* [0,100], also for out-of-range inputs.
C12_CategoryScoresBounded ==
    Scored => \A c \in DOMAIN scores.categories :
                 0 <= scores.categories[c] /\ scores.categories[c] <= 10000

\* the category whose inputs come from the domain
CategoryOf(d) == IF d = "identity" THEN "identity" ELSE IF d = "backup" THEN "backup" ELSE "devices"

\* C15: when the entry of identity, backup or devices is absent or the error
\* sentinel, that domain's category is scored the neutral 50.
C15_UnavailableDomainScoredNeutral ==
    Scored => \A d \in {"identity", "backup", "devices"} :
                 Unavailable(d) => scores.categories[CategoryOf(d)] = 5000

\* some domain's entry is absent or the error sentinel
Degraded == \E d \in Domains : Unavailable(d)

\* the requested frameworks
Requested == {args.frameworks[i] : i \in 1..Len(args.frameworks)}

\* C16: whichever domains are absent or the error sentinel (all five
\* included), finding generation, score calculation and the mapping to every
\* requested framework each go through and leave a result: a list of findings,
\* an overall score with its grade and categories, and a compliance result
\* with a score per framework.
C16_DegradedAnalysisCompletes ==
    Degraded =>
        /\ pc \in {"analyze_findings", "analyze_scores", "analyze_map"} =>
              ENABLED <<AnalysisNext>>_vars
        /\ pc \in {"analyze_scores", "analyze_map", "save_analysis"} =>
              \A i \in 1..Len(findings) :
                  /\ {"id", "title", "severity", "category"} \subseteq DOMAIN findings[i]
                  /\ findings[i].severity \in {"critical", "high"}
        /\ pc \in {"analyze_map", "save_analysis"} =>
              /\ {"overall_score", "overall_grade", "categories"} \subseteq DOMAIN scores
              /\ scores.overall_score \in 0..1000
              /\ scores.overall_grade \in {"A", "B", "C", "D", "F"}
              /\ DOMAIN scores.categories = CategoryNames
        /\ pc = "save_analysis" =>
              /\ DOMAIN compliance_results = Requested
              /\ \A fw \in Requested :
                    /\ "score" \in DOMAIN compliance_results[fw]
                    /\ compliance_results[fw].score \in 0..1000
                    /\ scores.compliance[fw] = compliance_results[fw].score

\* all five domains unavailable, some absent and some in error, analysed
C16_Witness ==
    /\ pc = "save_analysis"
    /\ \A d \in Domains : Unavailable(d)
    /\ "identity" \notin DOMAIN raw_data
    /\ "backup" \in DOMAIN raw_data
    /\ DOMAIN compliance_results = Requested
    /\ "overall_score" \in DOMAIN scores

\* _generate_findings has returned
FindingsGenerated == pc \in {"analyze_scores", "analyze_map", "save_analysis"}

\* the identity entry reports MFA coverage
HasMfaCoverage ==
    /\ "identity" \in DOMAIN raw_data
    /\ "mfa_coverage" \in DOMAIN raw_data.identity

\* the generated findings with the given title
Titled(title) == SelectSeq(findings, LAMBDA f : f.title = title)

\* C17: with user MFA coverage c, there is exactly one "Users Without MFA"
\* finding when c < 95, critical when c < 80 and high when 80 <= c < 95, and
\* none when c >= 95.
C17_UserMfaRule ==
    (FindingsGenerated /\ HasMfaCoverage) =>
        LET c == raw_data.identity.mfa_coverage.user_coverage_percent
            hits == Titled("Users Without MFA")
        IN /\ c < 80 => (Len(hits) = 1 /\ hits[1].severity = "critical")
           /\ (80 <= c /\ c < 95) => (Len(hits) = 1 /\ hits[1].severity = "high")
           /\ c >= 95 => Len(hits) = 0

C17_Witness ==
    /\ FindingsGenerated
    /\ HasMfaCoverage
    /\ raw_data.identity.mfa_coverage.user_coverage_percent = 82
    /\ Len(Titled("Users Without MFA")) = 1
    /\ Titled("Users Without MFA")[1].severity = "high"

\* C18: "Administrators Without MFA" (critical, identity) is among the
\* findings exactly when admin MFA coverage is below 100, whatever the user
\* coverage and the other domains' entries are.
C18_AdminMfaRule ==
    (FindingsGenerated /\ HasMfaCoverage) =>
        LET a == raw_data.identity.mfa_coverage.admin_coverage_percent
            hits == Titled("Administrators Without MFA")
        IN /\ Len(hits) = (IF a < 100 THEN 1 ELSE 0)
           /\ \A i \in 1..Len(hits) :
                 hits[i].severity = "critical" /\ hits[i].category = "identity"

\* coverage 60 with 10 admins, no other rule's input present
C18_Witness ==
    /\ FindingsGenerated
    /\ HasMfaCoverage
    /\ raw_data.identity.mfa_coverage.admin_coverage_percent = 60
    /\ raw_data.identity.mfa_coverage.total_admins = 10
    /\ raw_data.identity.mfa_coverage.user_coverage_percent = 95
    /\ \A d \in Domains \ {"identity"} : Unavailable(d)
    /\ Len(Titled("Administrators Without MFA")) = 1

\* the backup entry reports its health
HasBackupHealth ==
    /\ "backup" \in DOMAIN raw_data
    /\ "health" \in DOMAIN raw_data.backup

\* C19: a not_configured backup gives exactly one critical "Azure Backup Not
\* Configured" and no coverage finding; a configured backup gives exactly one
\* high "Incomplete Backup Coverage" when coverage < 90 and no backup finding
\* when coverage >= 90; the two findings never appear together.
C19_BackupRule ==
    (FindingsGenerated /\ HasBackupHealth) =>
        LET health == raw_data.backup.health
            unconfigured == Titled("Azure Backup Not Configured")
            incomplete == Titled("Incomplete Backup Coverage")
        IN /\ health.status = "not_configured" =>
                 /\ Len(unconfigured) = 1
                 /\ unconfigured[1].severity = "critical"
                 /\ Len(incomplete) = 0
           /\ (health.status # "not_configured" /\ health.protected_percent < 90) =>
                 /\ Len(incomplete) = 1
                 /\ incomplete[1].severity = "high"
                 /\ Len(unconfigured) = 0
           /\ (health.status # "not_configured" /\ health.protected_percent >= 90) =>
                 Len(unconfigured) + Len(incomplete) = 0
           /\ Len(unconfigured) = 0 \/ Len(incomplete) = 0

\* not configured and reporting a coverage below 90
C19_Witness ==
    /\ FindingsGenerated
    /\ HasBackupHealth
    /\ raw_data.backup.health.status = "not_configured"
    /\ Get(raw_data.backup.health, "protected_percent", 100) = 50
    /\ Len(Titled("Azure Backup Not Configured")) = 1
    /\ Len(Titled("Incomplete Backup Coverage")) = 0

\* the (title, category) signatures of a findings list, each with its severity
Signatures(fl) == {<<fl[i].title, fl[i].category, fl[i].severity>> : i \in 1..Len(fl)}

\* C20: generating findings leaves the raw snapshot as it was, and the
\* signatures and severities it yields are those any engine, whatever its
\* assessment id, yields on that snapshot.
C20_FindingsDeterministic ==
    [][pc = "analyze_findings" =>
          /\ raw_data' = raw_data
          /\ \A aid \in EngineIds :
                Signatures(GenerateFindings(raw_data', aid)) = Signatures(findings')]_vars

C20_Witness ==
    /\ pc = "analyze_scores"
    /\ assessment_id = Uuid(2)
    /\ Len(findings) >= 3
    /\ Signatures(findings) = Signatures(GenerateFindings(raw_data, Uuid(1)))

\* map_to_framework has returned
Mapped == call.fn = "map_to_framework" /\ ret.done

\* the framework's catalog has no controls
ZeroControls(fw) == Len(Get(Catalog, fw, << >>)) = 0

\* C21: for a framework whose catalog has zero controls, map_to_framework
\* returns score 0 and controls {total: 0, passed: 0, failed: 0} for every
\* finding set.
C21_ZeroControlCatalog ==
    (Mapped /\ ZeroControls(call.framework)) =>
        /\ ret.value.score = 0
        /\ ret.value.controls = [total |-> 0, passed |-> 0, failed |-> 0]

\* C22: in every result of map_to_framework, total, passed and failed are
\* non-negative and passed + failed = total.
C22_ControlCountsConsistent ==
    Mapped =>
        /\ ret.value.controls.total >= 0
        /\ ret.value.controls.passed >= 0
        /\ ret.value.controls.failed >= 0
        /\ ret.value.controls.passed + ret.value.controls.failed = ret.value.controls.total

\* the critical findings of a list
CriticalCount(fl) == Len(SelectSeq(fl, LAMBDA f : f.severity = "critical"))

C28_MapperKeepsStaticTable ==
    [][(call'.fn = "map_to_framework" /\ call' # call) =>
          /\ control_map' = control_map
          /\ ret'.value = MapToFramework(FINDING_TO_CONTROL_MAP, call'.framework,
                                         call'.findings).result]_vars

\* the control ids a finding resolves to for a framework: through the static
\* table and through its matching explicit tags
ResolvesTo(finding, fw) ==
    LET ctrls == ResolvedControls(FINDING_TO_CONTROL_MAP, fw, finding)
    IN {ctrls[i] : i \in 1..Len(ctrls)}

\* C29: in a result of map_to_framework a control has status fail exactly when
\* some finding resolves to it, and its evidence list holds each triggering
\* finding exactly once.
C29_FailedControlEvidence ==
    Mapped =>
        \A i \in 1..Len(ret.value.control_status) :
            LET cs == ret.value.control_status[i]
                triggering == {j \in 1..Len(call.findings) :
                                  cs.id \in ResolvesTo(call.findings[j], call.framework)}
            IN /\ cs.status = "fail" <=> triggering # {}
               /\ Len(cs.findings) = Cardinality(triggering)

\* _compare_findings has returned
FindingsCompared == call.fn = "_compare_findings" /\ ret.done

\* the (title, category) pairs of a findings list
PairsOfList(fl) == {<<fl[i].title, fl[i].category>> : i \in 1..Len(fl)}

\* the (title, category) pairs of a set of finding summaries
PairsOf(entries) == {<<e.title, e.category>> : e \in entries}

C25_DiffSymmetry ==
    FindingsCompared =>
        LET swapped == CompareFindings(call.previous, call.current).summary
        IN /\ swapped.resolved_count = ret.value.summary.new_count
           /\ swapped.new_count = ret.value.summary.resolved_count
           /\ swapped.persistent_count = ret.value.summary.persistent_count

\* two findings of one signature against one of them and another finding
C25_Witness ==
    /\ FindingsCompared
    /\ Len(call.current) = 2
    /\ Cardinality(PairsOfList(call.current)) = 1
    /\ Len(call.previous) = 2
    /\ ret.value.summary.persistent_count = 1
    /\ ret.value.summary.resolved_count = 1
    /\ ret.value.summary.new_count = 0

\* the trend has been derived
TrendDerived == call.fn = "_generate_summary" /\ ret.done

\* the classification rule in its priority order
TrendRule ==
    LET sc == call.score_change
        net == call.net_change
    IN /\ ret.value = "significant_improvement" <=> (sc > 50 /\ net > 0)
       /\ ret.value = "improvement" <=> (~(sc > 50 /\ net > 0) /\ (sc > 0 \/ net > 0))
       /\ ret.value = "regression" <=>
             (~(sc > 50 /\ net > 0) /\ ~(sc > 0 \/ net > 0) /\ (sc < -50 \/ net < -3))
       /\ ret.value = "stable" <=>
             (~(sc > 50 /\ net > 0) /\ ~(sc > 0 \/ net > 0) /\ ~(sc < -50 \/ net < -3))

\* C26 as stated: the rule, and a net change of 1 with any non-negative score
\* change is an improvement.
C26_TrendClassification ==
    TrendDerived =>
        /\ TrendRule
        /\ (call.net_change = 1 /\ call.score_change >= 0) => ret.value = "improvement"

\* C26 amended: the rule, and a net change of 1 with a score change from 0 to
\* 5 is an improvement (above 5 it is a significant improvement).
C26_TrendClassificationBounded ==
    TrendDerived =>
        /\ TrendRule
        /\ (call.net_change = 1 /\ call.score_change >= 0 /\ call.score_change <= 50) =>
              ret.value = "improvement"
        /\ (call.net_change = 1 /\ call.score_change > 50) =>
              ret.value = "significant_improvement"

C26_Witness ==
    /\ TrendDerived
    /\ call.net_change = 1
    /\ call.score_change = 50
    /\ ret.value = "improvement"

\* _compare_scores has returned
ScoresCompared == call.fn = "_compare_scores" /\ ret.done

\* num/den rounded to the nearest integer, ties to even, for den # 0
RoundedQuotient(num, den) ==
    IF den > 0 THEN RoundHalfEven(num, den) ELSE RoundHalfEven(0 - num, 0 - den)

\* what C27 says of one metric: `unit` is the number of units of current and
\* previous in a tenth of a point; change and change_percent are reported to
\* one decimal
MetricAsStated(entry, current, previous, unit) ==
    /\ entry.change = RoundHalfEven(current - previous, unit)
    /\ entry.direction = (IF current > previous THEN "improved"
                          ELSE IF current < previous THEN "declined" ELSE "unchanged")
    /\ entry.change_percent = (IF previous = 0 THEN 0
                               ELSE RoundedQuotient((current - previous) * 1000, previous))

ScoresCalculated == call.fn = "_calculate_scores" /\ ret.done

\* C30: in the score record, overall_grade is the grade band of the stored,
\* rounded overall_score.
C30_StoredGradeMatchesStoredScore ==
    ScoresCalculated =>
        ret.value.overall_grade = calculate_grade(ret.value.overall_score * 1000)

====
